---- MODULE Spec2Model ----
(***************************************************************************)
(* Model of the Tooltip component of rn-tooltip (src/src/Triangle.tsx,     *)
(* which holds both the Triangle primitive and the Tooltip component).     *)
(*                                                                         *)
(* The component owns two pieces of React state, isVisible and             *)
(* renderedElementLayout, a ref to its host view and a mount timer.  Every *)
(* handler runs to completion on the UI thread and React then re-renders,  *)
(* so every action ends by recomputing `view`, the output of the last      *)
(* render: the styles handed to the rendering primitives and the value of  *)
(* isVisible captured by the handlers that render created.                 *)
(*                                                                         *)
(* Collaborators outside the component are modelled by what they deliver:  *)
(* the native measurement answers requests in order and later, the Modal   *)
(* reports a show after it became visible, a dismiss after it became       *)
(* hidden (iOS only) and a close request while it is visible.              *)
(***************************************************************************)
EXTENDS Integers, Sequences, FiniteSets, TLC

\* ---------------------------------------------------------------- bounds
MaxToggles == 3        \* toggleTooltip invocations explored
MaxRequestClose == 1   \* request-close events explored
ScreenWidth == 400     \* viewport width delivered by the viewport collaborator
ScreenHeight == 800    \* viewport height delivered by the viewport collaborator
MaxLift == 2           \* how far above the anchor the engine may put a flipped y

\* ------------------------------------------------------------- constants
Margin == 10           \* screen-edge inset of the placement engine
PointerGap == 13       \* gap the placement engine reserves for the pointer
DefaultHeight == 40
DefaultWidth == 150

\* A dimension is a number or a proportional value such as "60%".
Num(n) == [num |-> TRUE, val |-> n]
Pct(p) == [num |-> FALSE, val |-> p]

\* useState initial value of renderedElementLayout
ZeroLayout == [xOffset |-> 0, yOffset |-> 0, elementWidth |-> 0, elementHeight |-> 0]

\* Geometries the native measurement can report.  Widths keep
\* (popover width - elementWidth) even, so that halving is exact.
AnchorSet ==
  { [xOffset |-> 20,  yOffset |-> 100, elementWidth |-> 100, elementHeight |-> 40],
    [xOffset |-> 20,  yOffset |-> 700, elementWidth |-> 100, elementHeight |-> 40],
    [xOffset |-> 330, yOffset |-> 500, elementWidth |-> 60,  elementHeight |-> 30] }

\* Caller-supplied containerStyle values explored (placement keys only).
EmptyStyle == [k \in {} |-> 0]
ContainerStyles ==
  { EmptyStyle,
    ("left" :> 5) @@ ("top" :> 7),
    ("right" :> 9) @@ ("bottom" :> 11) }

VARIABLES
  isIOS,                  \* helpers.isIOS
  isRTL,                  \* I18nManager.isRTL
  withPointer, height, width, containerStyle, actionType,   \* props
  engineLift,             \* unknown parameter of the placement engine
  mounted,                \* the component has not been torn down
  refCurrent,             \* renderedElementRef.current is a host view
  timer,                  \* mount timer: "pending", "fired" or "cancelled"
  isVisible,              \* useState(false)
  renderedElementLayout,  \* useState({0,0,0,0})
  measureQueue,           \* measureInWindow requests in flight, oldest first
  modalEvents,            \* Modal events not yet delivered, oldest first
  view,                   \* output of the last render
  effects,                \* ordered effects of the last handler invocation
  toggles,                \* toggleTooltip invocations so far
  measureRequests,        \* getElementPosition invocations so far
  onOpenCalls, onCloseCalls,   \* invocations of the lifecycle callbacks
  opens, closes,          \* hidden->visible and visible->hidden transitions
  requestCloses,          \* request-close events handled
  lateUpdates,            \* setRenderedElementLayout calls made after teardown
  layoutSeq,              \* number of the request whose answer is stored (0: none)
  openSeq,                \* getElementPosition call made by the toggle that last opened
  openIssued              \* that call found the ref attached and asked for a measurement

config == <<isIOS, isRTL, withPointer, height, width, containerStyle,
            actionType, engineLift>>
ghosts == <<toggles, measureRequests, onOpenCalls, onCloseCalls, opens,
            closes, requestCloses, lateUpdates, layoutSeq, openSeq,
            openIssued>>
vars == <<config, mounted, refCurrent, timer, isVisible,
          renderedElementLayout, measureQueue, modalEvents, view, effects,
          ghosts>>

\* ---------------------------------------------------------------- helpers
Max(a, b) == IF a > b THEN a ELSE b
Min(a, b) == IF a < b THEN a ELSE b
Range(s) == { s[i] : i \in DOMAIN s }
Count(s, e) == Cardinality({ i \in DOMAIN s : s[i] = e })
\* position of the first occurrence of e in s, 0 when absent
IndexOf(s, e) ==
  IF e \in Range(s) THEN CHOOSE i \in DOMAIN s : s[i] = e /\ \A j \in 1..(i-1) : s[j] # e
  ELSE 0
SetVis(b) == IF b THEN "setIsVisible(true)" ELSE "setIsVisible(false)"

\* ------------------------------------------------------- placement engine
\* getTooltipCoordinate(x, y, width, height, ScreenWidth, ScreenHeight,
\*                      tooltipWidth, withPointer) -> {x, y}
getTooltipCoordinate(xOffset, yOffset, elementWidth, elementHeight, sw, sh, tw, wp, lift) ==
  LET centred == xOffset - ((tw.val - elementWidth) \div 2)
      x == IF tw.num THEN Max(Margin, Min(centred, sw - tw.val - Margin))
           ELSE Margin
      below == yOffset + elementHeight + (IF wp THEN PointerGap ELSE 0)
      flip == 2 * yOffset > sh
  IN  [x |-> x, y |-> IF flip THEN yOffset - lift ELSE below]

\* ----------------------------------------------------------------- render
\* variant: the flipped fixed-height popover is put at y instead of y - height
getTooltipStyle_TopAtY(lay, rtl, w, h, cs, wp, lift) ==
  LET c == getTooltipCoordinate(lay.xOffset, lay.yOffset, lay.elementWidth,
                                lay.elementHeight, ScreenWidth, ScreenHeight,
                                w, wp, lift)
      base == (IF rtl THEN ("right" :> c.x) ELSE ("left" :> c.x))
              @@ ("width" :> w) @@ ("height" :> h)
      merged == cs @@ base
      pastMiddleLine == lay.yOffset > c.y
      tooltipStyle ==
        IF ~h.num /\ pastMiddleLine THEN ("bottom" :> (ScreenHeight - c.y)) @@ merged
        ELSE ("top" :> c.y) @@ merged
  IN  [tooltipStyle |-> tooltipStyle, pastMiddleLine |-> pastMiddleLine, coord |-> c]

\* variant: the flipped proportional popover gets bottom = y
getTooltipStyle_BottomAtY(lay, rtl, w, h, cs, wp, lift) ==
  LET c == getTooltipCoordinate(lay.xOffset, lay.yOffset, lay.elementWidth,
                                lay.elementHeight, ScreenWidth, ScreenHeight,
                                w, wp, lift)
      base == (IF rtl THEN ("right" :> c.x) ELSE ("left" :> c.x))
              @@ ("width" :> w) @@ ("height" :> h)
      merged == cs @@ base
      pastMiddleLine == lay.yOffset > c.y
      tooltipStyle ==
        IF ~h.num /\ pastMiddleLine THEN ("bottom" :> c.y) @@ merged
        ELSE IF h.num /\ pastMiddleLine THEN ("top" :> (c.y - h.val)) @@ merged
        ELSE ("top" :> c.y) @@ merged
  IN  [tooltipStyle |-> tooltipStyle, pastMiddleLine |-> pastMiddleLine, coord |-> c]

\* variant: right-to-left mirrors the value as well (ScreenWidth - x)
getTooltipStyle_MirroredValue(lay, rtl, w, h, cs, wp, lift) ==
  LET c == getTooltipCoordinate(lay.xOffset, lay.yOffset, lay.elementWidth,
                                lay.elementHeight, ScreenWidth, ScreenHeight,
                                w, wp, lift)
      base == (IF rtl THEN ("right" :> (ScreenWidth - c.x)) ELSE ("left" :> c.x))
              @@ ("width" :> w) @@ ("height" :> h)
      merged == cs @@ base
      pastMiddleLine == lay.yOffset > c.y
      tooltipStyle ==
        IF ~h.num /\ pastMiddleLine THEN ("bottom" :> (ScreenHeight - c.y)) @@ merged
        ELSE IF h.num /\ pastMiddleLine THEN ("top" :> (c.y - h.val)) @@ merged
        ELSE ("top" :> c.y) @@ merged
  IN  [tooltipStyle |-> tooltipStyle, pastMiddleLine |-> pastMiddleLine, coord |-> c]

\* variant: the flip test is yOffset >= y
getTooltipStyle_FlipOnEqual(lay, rtl, w, h, cs, wp, lift) ==
  LET c == getTooltipCoordinate(lay.xOffset, lay.yOffset, lay.elementWidth,
                                lay.elementHeight, ScreenWidth, ScreenHeight,
                                w, wp, lift)
      base == (IF rtl THEN ("right" :> c.x) ELSE ("left" :> c.x))
              @@ ("width" :> w) @@ ("height" :> h)
      merged == cs @@ base
      pastMiddleLine == lay.yOffset >= c.y
      tooltipStyle ==
        IF ~h.num /\ pastMiddleLine THEN ("bottom" :> (ScreenHeight - c.y)) @@ merged
        ELSE IF h.num /\ pastMiddleLine THEN ("top" :> (c.y - h.val)) @@ merged
        ELSE ("top" :> c.y) @@ merged
  IN  [tooltipStyle |-> tooltipStyle, pastMiddleLine |-> pastMiddleLine, coord |-> c]

getTooltipStyle(lay, rtl, w, h, cs, wp, lift) ==
  LET c == getTooltipCoordinate(lay.xOffset, lay.yOffset, lay.elementWidth,
                                lay.elementHeight, ScreenWidth, ScreenHeight,
                                w, wp, lift)
      base == (IF rtl THEN ("right" :> c.x) ELSE ("left" :> c.x))
              @@ ("width" :> w) @@ ("height" :> h)
      merged == cs @@ base
      pastMiddleLine == lay.yOffset > c.y
      tooltipStyle ==
        IF ~h.num /\ pastMiddleLine THEN ("bottom" :> (ScreenHeight - c.y)) @@ merged
        ELSE IF h.num /\ pastMiddleLine THEN ("top" :> (c.y - h.val)) @@ merged
        ELSE ("top" :> c.y) @@ merged
  IN  [tooltipStyle |-> tooltipStyle, pastMiddleLine |-> pastMiddleLine, coord |-> c]

\* The pointer's horizontal coordinate xOffset + elementWidth / 2 - 7.5 is
\* kept in half units (twice its value) so that it stays an integer.
\* variant: the two vertical positions of the pointer are swapped
renderPointer_TopSwapped(pastMiddleLine, lay, rtl) ==
  LET x2 == 2 * lay.xOffset + lay.elementWidth - 15
  IN  [isDown |-> pastMiddleLine,
       style |-> ("top" :> (IF pastMiddleLine THEN lay.yOffset + lay.elementHeight - 2
                                              ELSE lay.yOffset - 13))
                 @@ (IF rtl THEN ("right" :> x2) ELSE ("left" :> x2))]

renderPointer(pastMiddleLine, lay, rtl) ==
  LET x2 == 2 * lay.xOffset + lay.elementWidth - 15
  IN  [isDown |-> pastMiddleLine,
       style |-> ("top" :> (IF pastMiddleLine THEN lay.yOffset - 13
                                              ELSE lay.yOffset + lay.elementHeight - 2))
                 @@ (IF rtl THEN ("right" :> x2) ELSE ("left" :> x2))]

\* renderContent(true) together with the Modal's visible prop; pointer is
\* the sequence of pointers rendered: one when withPointer, else none.
renderContent(vis, lay, rtl, w, h, cs, wp, lift) ==
  LET ts == getTooltipStyle(lay, rtl, w, h, cs, wp, lift)
  IN  [isVisible |-> vis,
       highlight |-> ("top" :> lay.yOffset)
                     @@ (IF rtl THEN ("right" :> lay.xOffset) ELSE ("left" :> lay.xOffset))
                     @@ ("width" :> lay.elementWidth) @@ ("height" :> lay.elementHeight),
       pointer |-> IF wp THEN <<renderPointer(ts.pastMiddleLine, lay, rtl)>> ELSE <<>>,
       tooltipStyle |-> ts.tooltipStyle,
       pastMiddleLine |-> ts.pastMiddleLine,
       coord |-> ts.coord]

Render(vis, lay) ==
  renderContent(vis, lay, isRTL, width, height, containerStyle, withPointer, engineLift)

\* ------------------------------------------------------------------- Init
\* State after construction and the first commit: both useState cells hold
\* their initial values, the ref is attached and the mount timer is running.
InitState ==
  /\ mounted = TRUE
  /\ refCurrent = TRUE
  /\ timer = "pending"
  /\ isVisible = FALSE
  /\ renderedElementLayout = ZeroLayout
  /\ measureQueue = <<>>
  /\ modalEvents = <<>>
  /\ view = Render(FALSE, ZeroLayout)
  /\ effects = <<>>
  /\ toggles = 0
  /\ measureRequests = 0
  /\ onOpenCalls = 0
  /\ onCloseCalls = 0
  /\ opens = 0
  /\ closes = 0
  /\ requestCloses = 0
  /\ lateUpdates = 0
  /\ layoutSeq = 0
  /\ openSeq = 0
  /\ openIssued = FALSE

\* Every platform and trigger mode, presentation props at their defaults.
Init ==
  /\ isIOS \in BOOLEAN
  /\ isRTL = FALSE
  /\ actionType \in {"press", "longPress", "none"}
  /\ withPointer = TRUE
  /\ height = Num(DefaultHeight)
  /\ width = Num(DefaultWidth)
  /\ containerStyle = EmptyStyle
  /\ engineLift = 1
  /\ InitState

\* Every presentation prop and layout direction, on one platform.
InitPlacement ==
  /\ isIOS = FALSE
  /\ isRTL \in BOOLEAN
  /\ actionType = "press"
  /\ withPointer \in BOOLEAN
  /\ height \in {Num(DefaultHeight), Pct(50)}
  /\ width \in {Num(DefaultWidth), Pct(60)}
  /\ containerStyle \in ContainerStyles
  /\ engineLift \in 1..MaxLift
  /\ InitState

\* ---------------------------------------------------------------- handlers
\* Each handler is an operator giving the effects it performs, in order.

\* variant: a request that finds no ref is tried again
getElementPosition_Retry(refOk) ==
  IF refOk THEN <<"getElementPosition", "measureInWindow">>
  ELSE <<"getElementPosition", "getElementPosition">>

\* variant: measureInWindow is called without checking the ref
getElementPosition_NoGuard(refOk) ==
  <<"getElementPosition", "measureInWindow">>

getElementPosition(refOk) ==
  <<"getElementPosition">> \o (IF refOk THEN <<"measureInWindow">> ELSE <<>>)

\* variant: onClose is called after the state has been set
toggleTooltip_CloseAfterSet(closureVisible, ios, refOk) ==
  getElementPosition(refOk)
  \o <<SetVis(~closureVisible)>>
  \o (IF closureVisible /\ ~ios THEN <<"onClose">> ELSE <<>>)

\* variant: the anchor is measured only when the overlay is being opened
toggleTooltip_MeasureOnOpenOnly(closureVisible, ios, refOk) ==
  (IF closureVisible THEN <<>> ELSE getElementPosition(refOk))
  \o (IF closureVisible /\ ~ios THEN <<"onClose">> ELSE <<>>)
  \o <<SetVis(~closureVisible)>>

\* variant: the anchor is measured only when the overlay is being closed
toggleTooltip_MeasureOnCloseOnly(closureVisible, ios, refOk) ==
  (IF closureVisible THEN getElementPosition(refOk) ELSE <<>>)
  \o (IF closureVisible /\ ~ios THEN <<"onClose">> ELSE <<>>)
  \o <<SetVis(~closureVisible)>>

\* variant: onClose is called on every platform
toggleTooltip_CloseOnEveryPlatform(closureVisible, ios, refOk) ==
  getElementPosition(refOk)
  \o (IF closureVisible THEN <<"onClose">> ELSE <<>>)
  \o <<SetVis(~closureVisible)>>

\* variant: a one-shot machine that only ever opens
toggleTooltip_OneShot(closureVisible, ios, refOk) ==
  getElementPosition(refOk)
  \o (IF closureVisible /\ ~ios THEN <<"onClose">> ELSE <<>>)
  \o <<SetVis(TRUE)>>

toggleTooltip(closureVisible, ios, refOk) ==
  getElementPosition(refOk)
  \o (IF closureVisible /\ ~ios THEN <<"onClose">> ELSE <<>>)
  \o <<SetVis(~closureVisible)>>

\* measureInWindow callback
measureCallback == <<"setRenderedElementLayout">>

\* useEffect cleanup
effectCleanup == <<"clearTimeout">>

\* State of isVisible after the effects eff (the last setIsVisible wins).
VisAfter(eff, cur) ==
  LET sets == { i \in DOMAIN eff : eff[i] \in {SetVis(TRUE), SetVis(FALSE)} }
  IN  IF sets = {} THEN cur
      ELSE LET last == CHOOSE i \in sets : \A j \in sets : j <= i
           IN  eff[last] = SetVis(TRUE)

\* Modal events caused by re-rendering with visible = now after visible = was.
\* onDismiss is delivered on iOS only.
ModalEventsAfter(was, now, ios) ==
  IF ~was /\ now THEN <<"show">>
  ELSE IF was /\ ~now /\ ios THEN <<"dismiss">>
  ELSE <<>>

\* Runs the effects of a handler that calls getElementPosition and may set
\* isVisible: the state as the handler leaves it, before React re-renders.
HandlerState(eff, src) ==
  LET now == VisAfter(eff, isVisible)
  IN  /\ effects' = eff
      /\ measureRequests' = measureRequests + Count(eff, "getElementPosition")
      /\ measureQueue' =
           IF "measureInWindow" \in Range(eff)
           THEN Append(measureQueue, [src |-> src, seq |-> measureRequests + 1])
           ELSE measureQueue
      /\ onCloseCalls' = onCloseCalls + Count(eff, "onClose")
      /\ isVisible' = now
      /\ opens' = opens + (IF ~isVisible /\ now THEN 1 ELSE 0)
      /\ closes' = closes + (IF isVisible /\ ~now THEN 1 ELSE 0)

\* The handler followed by the re-render React makes when the event is over.
RunHandler(eff, src) ==
  /\ HandlerState(eff, src)
  /\ modalEvents' = modalEvents \o ModalEventsAfter(view.isVisible, isVisible', isIOS)
  /\ view' = Render(isVisible', renderedElementLayout)

\* ----------------------------------------------------------------- actions
\* A press (or long press) on the anchor, or a press on the Modal's overlay.
Toggle(src) ==
  /\ mounted
  /\ toggles < MaxToggles
  /\ src = "anchor" => actionType # "none"
  /\ src = "overlay" => view.isVisible
  /\ RunHandler(toggleTooltip(view.isVisible, isIOS, refCurrent), "toggle")
  /\ toggles' = toggles + 1
  /\ IF ~isVisible /\ isVisible'
     THEN openSeq' = measureRequests + 1 /\ openIssued' = refCurrent
     ELSE UNCHANGED <<openSeq, openIssued>>
  /\ UNCHANGED <<config, mounted, refCurrent, timer, renderedElementLayout,
                 onOpenCalls, requestCloses, lateUpdates, layoutSeq>>

\* toggleTooltip invoked while an earlier invocation of the same event batch
\* has not been rendered yet: React re-renders when the batch is over, so
\* the handler still closes over the previous render.
ToggleDeferred(src) ==
  /\ mounted
  /\ toggles < MaxToggles
  /\ src = "anchor" => actionType # "none"
  /\ src = "overlay" => view.isVisible
  /\ HandlerState(toggleTooltip(view.isVisible, isIOS, refCurrent), "toggle")
  /\ toggles' = toggles + 1
  /\ IF ~isVisible /\ isVisible'
     THEN openSeq' = measureRequests + 1 /\ openIssued' = refCurrent
     ELSE UNCHANGED <<openSeq, openIssued>>
  /\ UNCHANGED <<config, mounted, refCurrent, timer, renderedElementLayout,
                 modalEvents, view, onOpenCalls, requestCloses, lateUpdates,
                 layoutSeq>>

\* The re-render at the end of an event batch.
Flush ==
  /\ mounted
  /\ view # Render(isVisible, renderedElementLayout)
  /\ view' = Render(isVisible, renderedElementLayout)
  /\ modalEvents' = modalEvents \o ModalEventsAfter(view.isVisible, isVisible, isIOS)
  /\ UNCHANGED <<config, mounted, refCurrent, timer, isVisible,
                 renderedElementLayout, measureQueue, effects, ghosts>>

\* The mount timer expires and runs getElementPosition.
TimerFire ==
  /\ timer = "pending"
  /\ timer' = "fired"
  /\ RunHandler(getElementPosition(refCurrent), "timer")
  /\ UNCHANGED <<config, mounted, refCurrent, renderedElementLayout, toggles,
                 onOpenCalls, requestCloses, lateUpdates, layoutSeq, openSeq,
                 openIssued>>

\* The native side answers the oldest measurement request with geometry m.
MeasureDone(m) ==
  /\ measureQueue # <<>>
  /\ measureQueue' = Tail(measureQueue)
  /\ effects' = measureCallback
  /\ IF mounted
     THEN /\ renderedElementLayout' = m
          /\ layoutSeq' = Head(measureQueue).seq
          /\ view' = Render(isVisible, m)
          /\ modalEvents' = modalEvents
                             \o ModalEventsAfter(view.isVisible, isVisible, isIOS)
          /\ UNCHANGED lateUpdates
     ELSE /\ lateUpdates' = lateUpdates + 1
          /\ UNCHANGED <<renderedElementLayout, layoutSeq, view, modalEvents>>
  /\ UNCHANGED <<config, mounted, refCurrent, timer, isVisible,
                 toggles, measureRequests, onOpenCalls, onCloseCalls, opens,
                 closes, requestCloses, openSeq, openIssued>>

\* Teardown: the effect cleanup runs and React detaches the ref.
Unmount ==
  /\ mounted
  /\ mounted' = FALSE
  /\ refCurrent' = FALSE
  /\ timer' = IF timer = "pending" THEN "cancelled" ELSE timer
  /\ modalEvents' = <<>>
  /\ effects' = effectCleanup
  /\ UNCHANGED <<config, isVisible, renderedElementLayout, measureQueue, view,
                 ghosts>>

\* React detaches the host view from the ref while it is hidden and
\* attaches it again afterwards.
DetachRef ==
  /\ mounted /\ refCurrent
  /\ refCurrent' = FALSE
  /\ UNCHANGED <<config, mounted, timer, isVisible, renderedElementLayout,
                 measureQueue, modalEvents, view, effects, ghosts>>

AttachRef ==
  /\ mounted /\ ~refCurrent
  /\ refCurrent' = TRUE
  /\ UNCHANGED <<config, mounted, timer, isVisible, renderedElementLayout,
                 measureQueue, modalEvents, view, effects, ghosts>>

\* Modal onShow={onOpen}
ModalShow ==
  /\ mounted
  /\ modalEvents # <<>> /\ Head(modalEvents) = "show"
  /\ modalEvents' = Tail(modalEvents)
  /\ effects' = <<"onOpen">>
  /\ onOpenCalls' = onOpenCalls + 1
  /\ UNCHANGED <<config, mounted, refCurrent, timer, isVisible,
                 renderedElementLayout, measureQueue, view, toggles,
                 measureRequests, onCloseCalls, opens, closes, requestCloses,
                 lateUpdates, layoutSeq, openSeq, openIssued>>

\* Modal onDismiss={onClose}
ModalDismiss ==
  /\ mounted
  /\ modalEvents # <<>> /\ Head(modalEvents) = "dismiss"
  /\ modalEvents' = Tail(modalEvents)
  /\ effects' = <<"onClose">>
  /\ onCloseCalls' = onCloseCalls + 1
  /\ UNCHANGED <<config, mounted, refCurrent, timer, isVisible,
                 renderedElementLayout, measureQueue, view, toggles,
                 measureRequests, onOpenCalls, opens, closes, requestCloses,
                 lateUpdates, layoutSeq, openSeq, openIssued>>

\* variant: the request-close event also hides the overlay
ModalRequestClose_Hides ==
  /\ mounted
  /\ view.isVisible
  /\ requestCloses < MaxRequestClose
  /\ requestCloses' = requestCloses + 1
  /\ effects' = <<"onClose">>
  /\ onCloseCalls' = onCloseCalls + 1
  /\ isVisible' = FALSE
  /\ view' = Render(FALSE, renderedElementLayout)
  /\ UNCHANGED <<config, mounted, refCurrent, timer,
                 renderedElementLayout, measureQueue, modalEvents,
                 toggles, measureRequests, onOpenCalls, opens, closes,
                 lateUpdates, layoutSeq, openSeq, openIssued>>

\* Modal onRequestClose={onClose}
ModalRequestClose ==
  /\ mounted
  /\ view.isVisible
  /\ requestCloses < MaxRequestClose
  /\ requestCloses' = requestCloses + 1
  /\ effects' = <<"onClose">>
  /\ onCloseCalls' = onCloseCalls + 1
  /\ UNCHANGED <<config, mounted, refCurrent, timer, isVisible,
                 renderedElementLayout, measureQueue, modalEvents, view,
                 toggles, measureRequests, onOpenCalls, opens, closes,
                 lateUpdates, layoutSeq, openSeq, openIssued>>

Next ==
  \/ \E src \in {"anchor", "overlay"} : Toggle(src)
  \/ TimerFire
  \/ \E m \in AnchorSet : MeasureDone(m)
  \/ Unmount
  \/ DetachRef
  \/ AttachRef
  \/ ModalShow
  \/ ModalDismiss
  \/ ModalRequestClose

Spec == Init /\ [][Next]_vars

\* The steps that change what is rendered: toggles and measurements.
NextPlacement ==
  \/ \E src \in {"anchor", "overlay"} : Toggle(src)
  \/ TimerFire
  \/ \E m \in AnchorSet : MeasureDone(m)

SpecPlacement == InitPlacement /\ [][NextPlacement]_vars

\* One platform choice and the press trigger; handlers of one event batch
\* may run before the re-render.
InitBatched ==
  /\ isIOS \in BOOLEAN
  /\ isRTL = FALSE
  /\ actionType = "press"
  /\ withPointer = TRUE
  /\ height = Num(DefaultHeight)
  /\ width = Num(DefaultWidth)
  /\ containerStyle = EmptyStyle
  /\ engineLift = 1
  /\ InitState

NextBatched ==
  \/ \E src \in {"anchor", "overlay"} : Toggle(src)
  \/ \E src \in {"anchor", "overlay"} : ToggleDeferred(src)
  \/ Flush
  \/ TimerFire
  \/ \E m \in AnchorSet : MeasureDone(m)
  \/ ModalShow
  \/ ModalDismiss
  \/ ModalRequestClose

SpecBatched == InitBatched /\ [][NextBatched]_vars

TypeOK ==
  /\ isVisible \in BOOLEAN
  /\ view.isVisible = isVisible
  /\ timer \in {"pending", "fired", "cancelled"}
  /\ toggles \in 0..MaxToggles


\* ------------------------------------------------------------ properties
\* The handler that ran last was toggleTooltip.
LastWasToggle ==
  SetVis(TRUE) \in Range(effects) \/ SetVis(FALSE) \in Range(effects)

\* What the placement engine returns for the stored geometry.
EngineCoord ==
  getTooltipCoordinate(renderedElementLayout.xOffset, renderedElementLayout.yOffset,
                       renderedElementLayout.elementWidth,
                       renderedElementLayout.elementHeight,
                       ScreenWidth, ScreenHeight, width, withPointer, engineLift)

HasOneSide(style) == ("left" \in DOMAIN style) # ("right" \in DOMAIN style)

\* C1: every hidden -> visible -> hidden cycle invokes onOpen exactly once and
\* onClose exactly once on every platform and dismissal path: counting the
\* Modal events still to be delivered, onOpen has been invoked once per
\* hidden -> visible transition and onClose once per visible -> hidden
\* transition, and never more.
C1_OneOpenOneClosePerCycle ==
  mounted =>
    /\ onOpenCalls + Count(modalEvents, "show") = opens
    /\ onCloseCalls + Count(modalEvents, "dismiss") = closes

\* Without a request-close event the callbacks are counted exactly.
ExactWithoutRequestClose ==
  requestCloses = 0 => C1_OneOpenOneClosePerCycle

\* C2: toggleTooltip never invokes onClose when it is called while the
\* overlay is hidden; it invokes onClose itself only when the overlay is
\* visible and the platform is not iOS, and then before isVisible is set.
C2_ToggleCloseCallback ==
  [][toggles' = toggles + 1 =>
       /\ ~isVisible => ("onClose" \notin Range(effects') /\ onCloseCalls' = onCloseCalls)
       /\ "onClose" \in Range(effects') =>
            /\ isVisible /\ ~isIOS
            /\ onCloseCalls' = onCloseCalls + 1
            /\ SetVis(FALSE) \in Range(effects')
            /\ IndexOf(effects', "onClose") < IndexOf(effects', SetVis(FALSE))
       /\ (isVisible /\ isIOS) => onCloseCalls' = onCloseCalls]_vars

\* a toggle has just closed the overlay and called onClose itself
C2_Witness ==
  LastWasToggle /\ "onClose" \in Range(effects) /\ ~isVisible /\ ~isIOS

\* C3: after teardown no geometry update is made: the mount timer is no
\* longer pending and no measurement callback sets renderedElementLayout.
C3_NoLayoutUpdateAfterTeardown ==
  ~mounted => (timer # "pending" /\ lateUpdates = 0)

\* C4: a request-close event handled while the overlay is visible leaves
\* isVisible false.
C4_RequestCloseHides ==
  [][requestCloses' = requestCloses + 1 => ~isVisible']_vars

\* C5: every toggleTooltip invocation, in both directions, calls
\* getElementPosition first (which asks the native side for a measurement
\* when the ref is attached) and sets isVisible only after that.
C5_ToggleMeasuresFirst ==
  [][toggles' = toggles + 1 =>
       /\ measureRequests' = measureRequests + 1
       /\ effects'[1] = "getElementPosition"
       /\ IndexOf(effects', "getElementPosition") < IndexOf(effects', SetVis(~isVisible))
       /\ refCurrent =>
            /\ Len(measureQueue') = Len(measureQueue) + 1
            /\ IndexOf(effects', "measureInWindow") < IndexOf(effects', SetVis(~isVisible))]_vars

\* a toggle in the closing direction has just measured
C5_Witness ==
  /\ LastWasToggle /\ ~isVisible /\ closes >= 1
  /\ "measureInWindow" \in Range(effects)
  /\ measureQueue # <<>>

\* C6: a measurement requested while the ref is unavailable is a silent
\* no-op: nothing is asked of the native side, the stored geometry keeps its
\* value, and a toggle still flips isVisible and fires the callbacks.
C6_UnavailableRefIsNoOp ==
  [][(measureRequests' = measureRequests + 1 /\ ~refCurrent) =>
       /\ renderedElementLayout' = renderedElementLayout
       /\ measureQueue' = measureQueue
       /\ "measureInWindow" \notin Range(effects')
       /\ mounted' = mounted
       /\ toggles' = toggles + 1 =>
            /\ isVisible' = ~isVisible
            /\ onCloseCalls' = onCloseCalls + (IF isVisible /\ ~isIOS THEN 1 ELSE 0)
            /\ modalEvents' = modalEvents \o
                 (IF ~isVisible THEN <<"show">>
                  ELSE IF isIOS THEN <<"dismiss">> ELSE <<>>)]_vars

\* a toggle has just opened the overlay while the ref was unavailable
C6_Witness ==
  /\ ~refCurrent /\ mounted /\ LastWasToggle /\ isVisible
  /\ "measureInWindow" \notin Range(effects)
  /\ "show" \in Range(modalEvents)

\* C7 as stated: a flipped fixed-height popover has its top at
\* anchor.yOffset - popoverHeight.
C7_TopAtAnchorMinusHeight ==
  (view.pastMiddleLine /\ height.num) =>
    view.tooltipStyle["top"] = renderedElementLayout.yOffset - height.val

\* C7 amended: a flipped fixed-height popover has its top at y - popoverHeight
\* for the y returned by the placement engine, which is strictly above
\* anchor.yOffset - popoverHeight.
C7_TopAtEngineYMinusHeight ==
  (view.pastMiddleLine /\ height.num) =>
    /\ view.tooltipStyle["top"] = EngineCoord.y - height.val
    /\ view.tooltipStyle["top"] < renderedElementLayout.yOffset - height.val

\* the anchor of the example (yOffset 700, height 40) is flipped
C7_Witness ==
  /\ view.pastMiddleLine /\ height.num
  /\ renderedElementLayout.yOffset = 700 /\ height.val = 40

\* C8 as stated: a flipped proportional popover has its bottom at
\* viewport.height - anchor.yOffset and no top.
C8_BottomAtAnchor ==
  (view.pastMiddleLine /\ ~height.num) =>
    /\ view.tooltipStyle["bottom"] = ScreenHeight - renderedElementLayout.yOffset
    /\ "top" \notin DOMAIN view.tooltipStyle

\* C8 amended: a flipped proportional popover has its bottom at
\* viewport.height - y for the y returned by the placement engine, and the
\* placement sets no top: a top is present only when containerStyle
\* supplies one, with the caller's value.
C8_BottomAtEngineY ==
  (view.pastMiddleLine /\ ~height.num) =>
    /\ view.tooltipStyle["bottom"] = ScreenHeight - EngineCoord.y
    /\ "top" \in DOMAIN view.tooltipStyle =>
         /\ "top" \in DOMAIN containerStyle
         /\ view.tooltipStyle["top"] = containerStyle["top"]

C8_Witness ==
  /\ view.pastMiddleLine /\ ~height.num
  /\ renderedElementLayout \in AnchorSet
  /\ "top" \notin DOMAIN view.tooltipStyle

\* The three positioned elements as rendered under direction rtl.
ViewUnder(rtl) ==
  renderContent(isVisible, renderedElementLayout, rtl, width, height,
                containerStyle, withPointer, engineLift)

\* C9 as stated: under right-to-left the popover box, the highlight layer and
\* the pointer carry `right` and no `left`, with the number that `left`
\* carries under left-to-right, and each always has exactly one of the two.
C9_MirroredAlways ==
  LET r == ViewUnder(TRUE)
      l == ViewUnder(FALSE)
  IN  /\ view = ViewUnder(isRTL)
      /\ \A e \in {"tooltipStyle", "highlight"} :
           /\ "left" \notin DOMAIN r[e]
           /\ r[e]["right"] = l[e]["left"]
      /\ \A i \in DOMAIN r.pointer :
           /\ "left" \notin DOMAIN r.pointer[i].style
           /\ r.pointer[i].style["right"] = l.pointer[i].style["left"]
      /\ HasOneSide(view.tooltipStyle)
      /\ HasOneSide(view.highlight)
      /\ \A i \in DOMAIN view.pointer : HasOneSide(view.pointer[i].style)

\* C9 amended: the highlight layer and the pointer always carry exactly one
\* of left/right (`right` under right-to-left, with the number `left` carries
\* under left-to-right); the popover box does so whenever containerStyle
\* supplies neither left nor right.
C9_MirroredUnlessOverridden ==
  LET r == ViewUnder(TRUE)
      l == ViewUnder(FALSE)
  IN  /\ view = ViewUnder(isRTL)
      /\ "left" \notin DOMAIN r.highlight /\ "right" \notin DOMAIN l.highlight
      /\ r.highlight["right"] = l.highlight["left"]
      /\ Len(view.pointer) = (IF withPointer THEN 1 ELSE 0)
      /\ \A i \in DOMAIN r.pointer :
           /\ "left" \notin DOMAIN r.pointer[i].style
           /\ "right" \notin DOMAIN l.pointer[i].style
           /\ r.pointer[i].style["right"] = l.pointer[i].style["left"]
      /\ HasOneSide(view.highlight)
      /\ \A i \in DOMAIN view.pointer : HasOneSide(view.pointer[i].style)
      /\ (DOMAIN containerStyle \cap {"left", "right"} = {}) =>
           /\ "left" \notin DOMAIN r.tooltipStyle /\ "right" \notin DOMAIN l.tooltipStyle
           /\ r.tooltipStyle["right"] = l.tooltipStyle["left"]
           /\ r.tooltipStyle["right"] = EngineCoord.x
           /\ HasOneSide(view.tooltipStyle)

\* a measured anchor rendered right-to-left without overrides
C9_Witness ==
  /\ isRTL /\ containerStyle = EmptyStyle /\ withPointer
  /\ "right" \in DOMAIN view.pointer[1].style
  /\ renderedElementLayout \in AnchorSet
  /\ "right" \in DOMAIN view.tooltipStyle
  /\ view.tooltipStyle["right"] > Margin

\* C10: the overlay starts hidden and every toggle flips it, hidden to
\* visible and visible to hidden, so it can be opened and closed again after
\* any number of cycles.
C10_TwoStateToggle ==
  /\ ~isVisible
  /\ [][toggles' = toggles + 1 => isVisible' = ~isVisible]_vars

\* the overlay has been opened again after a full cycle
C10_Witness ==
  isVisible /\ opens >= 2 /\ closes >= 1


\* C11 as stated: in every state in which the overlay is visible, the stored
\* geometry comes from a measurement requested no earlier than the toggle
\* that opened it.
C11_VisibleGeometryIsFresh ==
  (mounted /\ isVisible) => layoutSeq >= openSeq

\* C11 amended: the toggle that opens the overlay asks for a re-measurement
\* in the same step (when the ref is attached) and shows the overlay at
\* once; while the overlay is visible either that measurement is still in
\* flight, the overlay then standing against the previous geometry, or the
\* stored geometry comes from a measurement requested no earlier than the
\* opening toggle.
C11_FreshOnceMeasured ==
  (mounted /\ isVisible /\ openIssued) =>
    \/ \E i \in DOMAIN measureQueue : measureQueue[i].seq = openSeq
    \/ layoutSeq >= openSeq

\* the overlay is visible and the measurement of the opening toggle, made
\* after an older one, has been committed
C11_Witness ==
  /\ mounted /\ isVisible /\ openIssued
  /\ openSeq >= 2 /\ layoutSeq = openSeq
  /\ renderedElementLayout \in AnchorSet

\* the overlay is visible against a geometry older than its opening toggle
C11_StaleWhileInFlight ==
  /\ mounted /\ isVisible /\ openIssued
  /\ layoutSeq < openSeq
  /\ measureQueue # <<>>


\* C12: caller-supplied containerStyle overrides always win: for every
\* placement key the caller supplies, the final popover style carries the
\* caller's value.
C12_OverridesAlwaysWin ==
  \A k \in DOMAIN containerStyle : view.tooltipStyle[k] = containerStyle[k]

\* The horizontal keys and the sizes are spread before containerStyle, so
\* there the caller's value does win.
OverridesWinExceptVertical ==
  \A k \in DOMAIN containerStyle \ {"top", "bottom"} :
    view.tooltipStyle[k] = containerStyle[k]

\* C13: the only measurement requests are the one made by the mount timer,
\* once and only while the component is mounted, and one per toggleTooltip
\* invocation; nothing is retried.
C13_RequestsAreTimerPlusToggles ==
  /\ [](measureRequests = (IF timer = "fired" THEN 1 ELSE 0) + toggles)
  /\ [](timer = "cancelled" => ~mounted)
  /\ [][measureRequests' # measureRequests =>
          /\ measureRequests' = measureRequests + 1
          /\ \/ toggles' = toggles + 1
             \/ mounted /\ timer = "pending" /\ timer' = "fired"]_vars
  /\ [][(timer' = "fired" /\ timer # "fired") =>
          (mounted /\ timer = "pending")]_vars

\* the timer and two toggles have asked, the last one in vain, and nothing
\* was asked again
C13_Witness ==
  /\ timer = "fired" /\ toggles = 2 /\ measureRequests = 3
  /\ LastWasToggle /\ ~refCurrent
  /\ "measureInWindow" \notin Range(effects)

\* C14: pastMiddleLine is true exactly when anchor.yOffset > y; when it is
\* false the top is y and the placement sets no bottom; in each of the three
\* cases the placement sets exactly one of top/bottom (the other one is
\* present only when containerStyle supplies it, with the caller's value).
C14_ExactlyOneVerticalEdge ==
  LET y == EngineCoord.y
      ts == view.tooltipStyle
      placed == IF view.pastMiddleLine /\ ~height.num THEN "bottom" ELSE "top"
      other == IF placed = "top" THEN "bottom" ELSE "top"
  IN  /\ view.pastMiddleLine <=> (renderedElementLayout.yOffset > y)
      /\ ~view.pastMiddleLine => ts["top"] = y
      /\ placed \in DOMAIN ts
      /\ ts[placed] = (IF ~view.pastMiddleLine THEN y
                       ELSE IF height.num THEN y - height.val
                       ELSE ScreenHeight - y)
      /\ other \in DOMAIN ts =>
           (other \in DOMAIN containerStyle /\ ts[other] = containerStyle[other])

\* a measured anchor with room below: top at y, no bottom
C14_Witness ==
  /\ ~view.pastMiddleLine
  /\ renderedElementLayout \in AnchorSet
  /\ view.tooltipStyle["top"] = EngineCoord.y
  /\ "bottom" \notin DOMAIN view.tooltipStyle

\* C15: the pointer is rendered iff withPointer; it points down iff
\* pastMiddleLine holds for the stored geometry, with its top at
\* anchor.yOffset - 13 when flipped and anchor.yOffset + anchor.height - 2
\* otherwise.
C15_PointerFollowsFlip ==
  /\ Len(view.pointer) = (IF withPointer THEN 1 ELSE 0)
  /\ \A i \in DOMAIN view.pointer :
       /\ view.pointer[i].isDown <=> view.pastMiddleLine
       /\ view.pointer[i].isDown <=> (renderedElementLayout.yOffset > EngineCoord.y)
       /\ view.pointer[i].style["top"] =
            (IF view.pastMiddleLine
             THEN renderedElementLayout.yOffset - 13
             ELSE renderedElementLayout.yOffset
                  + renderedElementLayout.elementHeight - 2)

\* the pointer of the flipped example anchor points down from 700 - 13
C15_Witness ==
  /\ withPointer /\ view.pastMiddleLine
  /\ view.pointer[1].isDown
  /\ view.pointer[1].style["top"] = 687


\* C16: isVisible is changed only by toggleTooltip (not by a measurement
\* result, the mount timer firing or being cancelled, or the Modal's show,
\* dismiss and request-close events), and toggleTooltip leaves the stored
\* geometry unchanged: it changes only when a measurement callback runs.
C16_FrameOfVisibilityAndGeometry ==
  [][/\ isVisible' # isVisible => (toggles' = toggles + 1 /\ LastWasToggle')
     /\ toggles' = toggles + 1 =>
          (renderedElementLayout' = renderedElementLayout /\ layoutSeq' = layoutSeq)
     /\ renderedElementLayout' # renderedElementLayout =>
          /\ effects' = measureCallback
          /\ measureQueue # <<>> /\ measureQueue' = Tail(measureQueue)
          /\ toggles' = toggles
     /\ (timer' # timer \/ requestCloses' # requestCloses
         \/ onOpenCalls' # onOpenCalls \/ mounted' # mounted
         \/ effects' = <<"onClose">>) => isVisible' = isVisible]_vars

\* a request-close event has been handled, the timer has fired and a
\* measurement has been stored, the overlay still being visible
C16_Witness ==
  /\ requestCloses >= 1 /\ isVisible /\ timer = "fired"
  /\ renderedElementLayout \in AnchorSet
  /\ onOpenCalls >= 1

\* C17 as stated: every invocation flips the visibility even when two are
\* handled before the re-render: after n invocations the overlay is visible
\* iff n is odd, and on non-iOS toggleTooltip has called onClose once per
\* visible -> hidden transition.
C17_EveryInvocationFlips ==
  /\ isVisible <=> (toggles % 2 = 1)
  /\ ~isIOS => (onCloseCalls - requestCloses = closes)

\* C17 amended: every invocation sets isVisible to the negation of the value
\* captured by the render it runs in, and on non-iOS calls onClose exactly
\* when that captured value is visible; so it flips the visibility when the
\* component has re-rendered since isVisible last changed, and an invocation
\* handled before that re-render writes the same value again.
C17_InvocationNegatesRenderedValue ==
  [][toggles' = toggles + 1 =>
       /\ isVisible' = ~view.isVisible
       /\ onCloseCalls' = onCloseCalls + (IF view.isVisible /\ ~isIOS THEN 1 ELSE 0)
       /\ (view.isVisible = isVisible) => isVisible' = ~isVisible
       /\ (view.isVisible # isVisible) => isVisible' = isVisible]_vars

\* two invocations were handled within one render: one transition only
C17_Witness ==
  /\ toggles = 2 /\ isVisible /\ ~view.isVisible
  /\ opens = 1 /\ closes = 0
  /\ LastWasToggle

====
